---- MODULE Spec2Model ----
(***************************************************************************)
(* The Dashboard component of repositorio-valesis (src/unnamed/part_000)   *)
(* as a state machine: its React state, the remote tables it talks to and  *)
(* the asynchronous handlers in flight, each with the values its closure   *)
(* captured when it was dispatched.                                        *)
(***************************************************************************)
EXTENDS Integers, Sequences, FiniteSets, TLC

\* ------------------------------------------------------------------ bounds

\* Handlers that may be awaiting the remote service at the same time.
MaxCalls == 2
\* Insert and delete requests the user dispatches in one run.
MaxRequests == 2
\* The same, in the runs that only create (SpecCreate).
MaxCreates == 3
\* The same, in the runs that collapse and expand the tree (SpecToggle).
MaxEdits == 1
\* Rows the remote holds once the user's other sessions have inserted theirs.
MaxRows == 6

\* ----------------------------------------------------------------- values

\* useState<string | null>(null): the null of an identifier.
NullId == 0
\* useState<string | null>(null): the null of error and userId.
Null == "null"

User == "u1"

\* Strings are sequences of characters; Blank is a white-space character.
Blank == " "
Empty == << >>

\* What the user types into the four inputs: a name, or only white space.
GroupName == <<"g">>
SubgroupName == <<"s">>
FileName == <<"f">>
FileLink == <<"l">>
Spaces == <<Blank>>

\* String.prototype.trim: strips white space at both ends.
RECURSIVE TrimLeft(_)
TrimLeft(s) ==
    IF s # Empty /\ Head(s) = Blank THEN TrimLeft(Tail(s)) ELSE s

RECURSIVE TrimRight(_)
TrimRight(s) ==
    IF s # Empty /\ s[Len(s)] = Blank
    THEN TrimRight(SubSeq(s, 1, Len(s) - 1))
    ELSE s

Trim(s) == TrimRight(TrimLeft(s))

\* ------------------------------------------------------------------ state

VARIABLES
    groups,            \* GroupWithDetails[]
    newGroupName,
    selectedGroup,
    selectedSubgroup,
    newFileName,
    newFileLink,
    addingSubgroupTo,
    newSubgroupName,
    isLoading,
    error,
    userId,
    isConnected,
    isAuthenticated,   \* App: the Dashboard is mounted while it is TRUE
    db,                \* the remote tables, each in created_at order
    nextId,            \* the next identifier (and timestamp) the remote assigns
    remoteUp,          \* whether the remote service can be reached
    calls,             \* the handlers awaiting the remote service
    quota              \* how many more requests the user dispatches in this run

view == <<groups, selectedGroup, selectedSubgroup, isLoading, error, userId,
          isConnected, isAuthenticated>>
form == <<newGroupName, newFileName, newFileLink, addingSubgroupTo,
          newSubgroupName>>
remote == <<db, nextId, remoteUp>>
vars == <<view, form, remote, calls, quota>>

\* ----------------------------------------------------------- array helpers

\* Array.prototype.map over a sequence.
Map(s, F(_)) == [i \in 1..Len(s) |-> F(s[i])]

Range(s) == {s[i] : i \in 1..Len(s)}

RemoveAt(s, i) == SubSeq(s, 1, i - 1) \o SubSeq(s, i + 1, Len(s))

\* ------------------------------------------------------- the remote tables

EmptyDb == [groups |-> << >>, subgroups |-> << >>, files |-> << >>]

GroupRow(id, name, uid) ==
    [id |-> id, name |-> name, user_id |-> uid, created_at |-> id]

SubgroupRow(id, name, groupId, uid) ==
    [id |-> id, name |-> name, group_id |-> groupId, user_id |-> uid,
     created_at |-> id]

FileRow(id, name, link, subgroupId, uid) ==
    [id |-> id, name |-> name, link |-> link, subgroup_id |-> subgroupId,
     user_id |-> uid, created_at |-> id]

\* What the remote may hold for the user when the Dashboard mounts.
InitialDatasets ==
    {EmptyDb,
     [groups |-> <<GroupRow(1, GroupName, User)>>,
      subgroups |-> <<SubgroupRow(2, SubgroupName, 1, User)>>,
      files |-> <<FileRow(3, FileName, FileLink, 2, User)>>]}

HasId(rows, id) == \E i \in 1..Len(rows) : rows[i].id = id

\* delete().eq('id', id) on groups: the remote cascades to subgroups and files.
DbDeleteGroup(d, id) ==
    LET ss == SelectSeq(d.subgroups, LAMBDA s : s.group_id # id)
    IN  [groups |-> SelectSeq(d.groups, LAMBDA g : g.id # id),
         subgroups |-> ss,
         files |-> SelectSeq(d.files, LAMBDA f : HasId(ss, f.subgroup_id))]

DbDeleteSubgroup(d, id) ==
    [groups |-> d.groups,
     subgroups |-> SelectSeq(d.subgroups, LAMBDA s : s.id # id),
     files |-> SelectSeq(d.files, LAMBDA f : f.subgroup_id # id)]

DbDeleteFile(d, id) ==
    [d EXCEPT !.files = SelectSeq(d.files, LAMBDA f : f.id # id)]

\* insert(...).select().single(): the row as the remote stores and returns it.
\* A subgroup needs its group and a file its subgroup (foreign keys).
InsertAccepted(d, c) ==
    /\ remoteUp
    /\ c.kind = "createSubgroup" => HasId(d.groups, c.id)
    /\ c.kind = "addFile" => HasId(d.subgroups, c.id)

\* ------------------------------------------------------------ the local tree

\* A nesting that puts every fetched subgroup under every group.
AssembleTreeUnfiltered(gs, ss, fs) ==
    Map(gs, LAMBDA group :
        [id |-> group.id, name |-> group.name, user_id |-> group.user_id,
         created_at |-> group.created_at,
         isExpanded |-> TRUE,
         subgroups |->
            Map(ss, LAMBDA subgroup :
                [id |-> subgroup.id, name |-> subgroup.name,
                 group_id |-> subgroup.group_id,
                 user_id |-> subgroup.user_id,
                 created_at |-> subgroup.created_at,
                 isExpanded |-> TRUE,
                 files |-> SelectSeq(fs, LAMBDA file :
                                           file.subgroup_id = subgroup.id)])])

\* fetchGroups, lines 141-151: nest the fetched rows by parent id.
AssembleTree(gs, ss, fs) ==
    Map(gs, LAMBDA group :
        [id |-> group.id, name |-> group.name, user_id |-> group.user_id,
         created_at |-> group.created_at,
         isExpanded |-> TRUE,
         subgroups |->
            Map(SelectSeq(ss, LAMBDA subgroup : subgroup.group_id = group.id),
                LAMBDA subgroup :
                    [id |-> subgroup.id, name |-> subgroup.name,
                     group_id |-> subgroup.group_id,
                     user_id |-> subgroup.user_id,
                     created_at |-> subgroup.created_at,
                     isExpanded |-> TRUE,
                     files |-> SelectSeq(fs, LAMBDA file :
                                  file.subgroup_id = subgroup.id)])])

\* A new group put before the others.
WithNewGroupFirst(gs, data) ==
    <<[id |-> data.id, name |-> data.name, user_id |-> data.user_id,
       created_at |-> data.created_at,
       subgroups |-> << >>, isExpanded |-> TRUE]>> \o gs

\* handleCreateGroup, line 181: [...groups, {...data, subgroups: [], isExpanded: true}]
WithNewGroup(gs, data) ==
    Append(gs, [id |-> data.id, name |-> data.name, user_id |-> data.user_id,
                created_at |-> data.created_at,
                subgroups |-> << >>, isExpanded |-> TRUE])

\* The same without the test of line 219: every group gets the subgroup.
WithNewSubgroupEverywhere(gs, groupId, data) ==
    Map(gs, LAMBDA group :
        [group EXCEPT !.subgroups =
            Append(group.subgroups,
                   [id |-> data.id, name |-> data.name,
                    group_id |-> data.group_id, user_id |-> data.user_id,
                    created_at |-> data.created_at,
                    files |-> << >>, isExpanded |-> TRUE])])

\* handleCreateSubgroup, lines 218-226.
WithNewSubgroup(gs, groupId, data) ==
    Map(gs, LAMBDA group :
        IF group.id = groupId
        THEN [group EXCEPT !.subgroups =
                Append(group.subgroups,
                       [id |-> data.id, name |-> data.name,
                        group_id |-> data.group_id, user_id |-> data.user_id,
                        created_at |-> data.created_at,
                        files |-> << >>, isExpanded |-> TRUE])]
        ELSE group)

\* A file shown under the name of its link.
WithNewFileNamedByLink(gs, subgroupId, data) ==
    Map(gs, LAMBDA group :
        [group EXCEPT !.subgroups =
            Map(group.subgroups, LAMBDA subgroup :
                IF subgroup.id = subgroupId
                THEN [subgroup EXCEPT !.files =
                        Append(subgroup.files, [data EXCEPT !.name = data.link])]
                ELSE subgroup)])

\* handleAddFile, lines 266-277.
WithNewFile(gs, subgroupId, data) ==
    Map(gs, LAMBDA group :
        [group EXCEPT !.subgroups =
            Map(group.subgroups, LAMBDA subgroup :
                IF subgroup.id = subgroupId
                THEN [subgroup EXCEPT !.files = Append(subgroup.files, data)]
                ELSE subgroup)])

\* handleDeleteGroup, line 312.
WithoutGroup(gs, groupId) == SelectSeq(gs, LAMBDA group : group.id # groupId)

\* handleDeleteSubgroup, lines 351-354.
WithoutSubgroup(gs, subgroupId) ==
    Map(gs, LAMBDA group :
        [group EXCEPT !.subgroups =
            SelectSeq(group.subgroups,
                      LAMBDA subgroup : subgroup.id # subgroupId)])

\* handleDeleteFile, lines 394-400.
WithoutFile(gs, fileId) ==
    Map(gs, LAMBDA group :
        [group EXCEPT !.subgroups =
            Map(group.subgroups, LAMBDA subgroup :
                [subgroup EXCEPT !.files =
                    SelectSeq(subgroup.files, LAMBDA file : file.id # fileId)])])

\* The same without the test of line 433: every group flips.
EveryGroupToggled(gs, groupId) ==
    Map(gs, LAMBDA group : [group EXCEPT !.isExpanded = ~group.isExpanded])

\* toggleGroup, lines 432-436.
GroupToggled(gs, groupId) ==
    Map(gs, LAMBDA group :
        IF group.id = groupId
        THEN [group EXCEPT !.isExpanded = ~group.isExpanded]
        ELSE group)

\* toggleSubgroup, lines 440-452.
SubgroupToggled(gs, groupId, subgroupId) ==
    Map(gs, LAMBDA group :
        IF group.id = groupId
        THEN [group EXCEPT !.subgroups =
                Map(group.subgroups, LAMBDA subgroup :
                    IF subgroup.id = subgroupId
                    THEN [subgroup EXCEPT !.isExpanded = ~subgroup.isExpanded]
                    ELSE subgroup)]
        ELSE group)

\* ------------------------------------------------------- handlers in flight

\* An async handler suspended at an await, with what its closure captured on
\* dispatch: the groups array, an identifier (the argument, or
\* selectedSubgroup for handleAddFile), the form values, the selection it
\* compares against, and for fetchGroups the rows fetched so far.
Call(kind, pc, gs, id, name, link, sel) ==
    [kind |-> kind, pc |-> pc, groups |-> gs, id |-> id, name |-> name,
     link |-> link, sel |-> sel, rows |-> EmptyDb]

InitCall == Call("initializeApp", "getSession", << >>, NullId, Empty, Empty, NullId)
FetchCall == Call("fetchGroups", "groups", << >>, NullId, Empty, Empty, NullId)

\* The view renders the tree and the forms once loading has ended (line 626),
\* and the Dashboard only while App holds isAuthenticated (App.tsx line 79).
Rendered == isAuthenticated /\ ~isLoading

CanDispatch == Len(calls) < MaxCalls /\ quota > 0

\* useEffect [userId, isConnected], lines 101-105: after a render in which
\* either changed, fetchGroups runs if both are set; it is cs with the call.
AfterEffect(cs, uid, conn) ==
    IF (uid # userId \/ conn # isConnected) /\ uid # Null /\ conn
    THEN Append(cs, FetchCall)
    ELSE cs

\* checkConnection() of ../lib/supabase: whether the remote answers.
checkConnection == remoteUp

\* ------------------------------------------------------------------- Init

Mounted(requests) ==
    /\ groups = << >>
    /\ newGroupName = Empty
    /\ selectedGroup = NullId
    /\ selectedSubgroup = NullId
    /\ newFileName = Empty
    /\ newFileLink = Empty
    /\ addingSubgroupTo = NullId
    /\ newSubgroupName = Empty
    /\ isLoading = TRUE
    /\ error = Null
    /\ userId = Null
    /\ isConnected = TRUE
    /\ isAuthenticated = TRUE
    /\ db \in InitialDatasets
    /\ nextId = Len(db.groups) + Len(db.subgroups) + Len(db.files) + 1
    /\ quota = requests
    /\ remoteUp \in BOOLEAN
    /\ calls = <<InitCall>>

Init == Mounted(MaxRequests)

InitCreate == Mounted(MaxCreates)

\* --------------------------------------------------- initializeApp (68-99)

\* A logout that leaves App as it was.
onLogoutIgnored == isAuthenticated' = isAuthenticated

\* App.handleLogout (App.tsx 37-44), called as onLogout.
onLogout == isAuthenticated' = FALSE

\* const { data: { session } } = await supabase.auth.getSession()
InitGetSession(i, outcome) ==
    /\ isAuthenticated
    /\ calls[i].kind = "initializeApp" /\ calls[i].pc = "getSession"
    /\ IF outcome = "session"
       THEN /\ calls' = [calls EXCEPT ![i].pc = "checkConnection"]
            /\ UNCHANGED <<view, form, remote>>
       ELSE /\ onLogout
            /\ error' = IF outcome = "throws"
                        THEN "Erro ao inicializar a aplicacao" ELSE error
            /\ calls' = RemoveAt(calls, i)
            /\ UNCHANGED <<groups, selectedGroup, selectedSubgroup, isLoading,
                           userId, isConnected, form, remote>>
    /\ UNCHANGED quota

\* const connected = await checkConnection(); setIsConnected(connected)
InitCheckConnection(i) ==
    /\ isAuthenticated
    /\ calls[i].kind = "initializeApp" /\ calls[i].pc = "checkConnection"
    /\ isConnected' = checkConnection
    /\ IF checkConnection
       THEN /\ calls' = [calls EXCEPT ![i].pc = "getUser"]
            /\ error' = error
       ELSE /\ calls' = RemoveAt(calls, i)
            /\ error' = "Erro de conexao com o banco de dados"
    /\ UNCHANGED <<groups, selectedGroup, selectedSubgroup, isLoading, userId,
                   isAuthenticated, form, remote>>
    /\ UNCHANGED quota

\* const { data: { user } } = await supabase.auth.getUser()
InitGetUser(i, outcome) ==
    /\ isAuthenticated
    /\ calls[i].kind = "initializeApp" /\ calls[i].pc = "getUser"
    /\ IF outcome = "session"
       THEN /\ userId' = User
            /\ calls' = AfterEffect(RemoveAt(calls, i), User, isConnected)
            /\ UNCHANGED <<error, isAuthenticated>>
       ELSE /\ onLogout
            /\ error' = IF outcome = "throws"
                        THEN "Erro ao inicializar a aplicacao" ELSE error
            /\ calls' = RemoveAt(calls, i)
            /\ userId' = userId
    /\ UNCHANGED <<groups, selectedGroup, selectedSubgroup, isLoading,
                   isConnected, form, remote>>
    /\ UNCHANGED quota

AuthOutcomes == {"session", "none", "throws"}

\* ----------------------------------------------------- fetchGroups (116-163)

\* A catch block that reports nothing.
CaughtSilently(i, message) ==
    /\ error' = error
    /\ calls' = [calls EXCEPT ![i].pc = "probe"]

\* catch (155-159) up to its await: setError, then checkConnection() is awaited.
Caught(i, message) ==
    /\ error' = message
    /\ calls' = [calls EXCEPT ![i].pc = "probe"]

\* await supabase.from('groups').select('*').order('created_at')
FetchSelectGroups(i) ==
    /\ isAuthenticated
    /\ calls[i].kind = "fetchGroups" /\ calls[i].pc = "groups"
    /\ IF remoteUp
       THEN /\ calls' = [calls EXCEPT ![i].pc = "subgroups",
                                      ![i].rows.groups = db.groups]
            /\ error' = error
       ELSE Caught(i, "Erro ao carregar os dados")
    /\ UNCHANGED <<groups, selectedGroup, selectedSubgroup, isLoading, userId,
                   isConnected, isAuthenticated, form, remote>>
    /\ UNCHANGED quota

\* A load that shows the groups it fetched when its second select fails.
FetchSelectSubgroupsPartial(i) ==
    /\ isAuthenticated
    /\ calls[i].kind = "fetchGroups" /\ calls[i].pc = "subgroups"
    /\ IF remoteUp
       THEN /\ calls' = [calls EXCEPT ![i].pc = "files",
                                      ![i].rows.subgroups = db.subgroups]
            /\ error' = error
            /\ groups' = groups
       ELSE /\ Caught(i, "Erro ao carregar os dados")
            /\ groups' = AssembleTree(calls[i].rows.groups, << >>, << >>)
    /\ UNCHANGED <<selectedGroup, selectedSubgroup, isLoading, userId,
                   isConnected, isAuthenticated, form, remote>>
    /\ UNCHANGED quota

\* await supabase.from('subgroups').select('*').order('created_at')
FetchSelectSubgroups(i) ==
    /\ isAuthenticated
    /\ calls[i].kind = "fetchGroups" /\ calls[i].pc = "subgroups"
    /\ IF remoteUp
       THEN /\ calls' = [calls EXCEPT ![i].pc = "files",
                                      ![i].rows.subgroups = db.subgroups]
            /\ error' = error
       ELSE Caught(i, "Erro ao carregar os dados")
    /\ UNCHANGED <<groups, selectedGroup, selectedSubgroup, isLoading, userId,
                   isConnected, isAuthenticated, form, remote>>
    /\ UNCHANGED quota

\* A load that installs its tree only where there was none.
FetchSelectFilesOnce(i) ==
    /\ isAuthenticated
    /\ calls[i].kind = "fetchGroups" /\ calls[i].pc = "files"
    /\ IF remoteUp
       THEN /\ groups' = IF groups = << >>
                         THEN AssembleTree(calls[i].rows.groups,
                                           calls[i].rows.subgroups, db.files)
                         ELSE groups
            /\ error' = Null
            /\ isLoading' = FALSE
            /\ calls' = RemoveAt(calls, i)
       ELSE /\ Caught(i, "Erro ao carregar os dados")
            /\ UNCHANGED <<groups, isLoading>>
    /\ UNCHANGED <<selectedGroup, selectedSubgroup, userId, isConnected,
                   isAuthenticated, form, remote>>
    /\ UNCHANGED quota

\* await supabase.from('files').select('*'), then lines 141-154 and finally.
FetchSelectFiles(i) ==
    /\ isAuthenticated
    /\ calls[i].kind = "fetchGroups" /\ calls[i].pc = "files"
    /\ IF remoteUp
       THEN /\ groups' = AssembleTree(calls[i].rows.groups,
                                      calls[i].rows.subgroups, db.files)
            /\ error' = Null
            /\ isLoading' = FALSE
            /\ calls' = RemoveAt(calls, i)
       ELSE /\ Caught(i, "Erro ao carregar os dados")
            /\ UNCHANGED <<groups, isLoading>>
    /\ UNCHANGED <<selectedGroup, selectedSubgroup, userId, isConnected,
                   isAuthenticated, form, remote>>
    /\ UNCHANGED quota

\* A catch block that sends the request again once the probe finds the remote.
ProbeReplyRetrying(i) ==
    /\ isAuthenticated
    /\ calls[i].pc = "probe"
    /\ isConnected' = checkConnection
    /\ isLoading' = IF calls[i].kind = "fetchGroups" THEN FALSE ELSE isLoading
    /\ calls' = IF checkConnection /\ calls[i].kind # "fetchGroups"
                THEN [calls EXCEPT ![i].pc = "request"]
                ELSE AfterEffect(RemoveAt(calls, i), userId, checkConnection)
    /\ UNCHANGED <<groups, selectedGroup, selectedSubgroup, error, userId,
                   isAuthenticated, form, remote>>
    /\ UNCHANGED quota

\* const connected = await checkConnection(); setIsConnected(connected):
\* the end of every catch block; fetchGroups then runs its finally (161).
ProbeReply(i) ==
    /\ isAuthenticated
    /\ calls[i].pc = "probe"
    /\ isConnected' = checkConnection
    /\ isLoading' = IF calls[i].kind = "fetchGroups" THEN FALSE ELSE isLoading
    /\ calls' = AfterEffect(RemoveAt(calls, i), userId, checkConnection)
    /\ UNCHANGED <<groups, selectedGroup, selectedSubgroup, error, userId,
                   isAuthenticated, form, remote>>
    /\ UNCHANGED quota

\* ------------------------------------------------ handleCreateGroup (165-199)

\* A create button that takes white space for a name.
handleCreateGroupUntrimmed ==
    /\ Rendered
    /\ IF newGroupName = Empty \/ userId = Null \/ ~isConnected
       THEN UNCHANGED vars
       ELSE /\ CanDispatch
            /\ calls' = Append(calls, Call("createGroup", "request", groups,
                                NullId, newGroupName, Empty, NullId))
            /\ quota' = quota - 1
            /\ UNCHANGED <<view, form, remote>>

handleCreateGroup ==
    /\ Rendered
    /\ IF Trim(newGroupName) = Empty \/ userId = Null \/ ~isConnected
       THEN UNCHANGED vars
       ELSE /\ CanDispatch
            /\ calls' = Append(calls, Call("createGroup", "request", groups,
                                NullId, newGroupName, Empty, NullId))
            /\ quota' = quota - 1
            /\ UNCHANGED <<view, form, remote>>

CreateGroupReply(i) ==
    /\ isAuthenticated
    /\ calls[i].kind = "createGroup" /\ calls[i].pc = "request"
    /\ IF InsertAccepted(db, calls[i])
       THEN LET data == GroupRow(nextId, calls[i].name, userId)
            IN  /\ db' = [db EXCEPT !.groups = Append(@, data)]
                /\ nextId' = nextId + 1
                /\ groups' = WithNewGroup(calls[i].groups, data)
                /\ newGroupName' = Empty
                /\ error' = Null
                /\ calls' = RemoveAt(calls, i)
       ELSE /\ Caught(i, "Erro ao criar grupo")
            /\ UNCHANGED <<groups, newGroupName, db, nextId>>
    /\ UNCHANGED <<selectedGroup, selectedSubgroup, isLoading, userId,
                   isConnected, isAuthenticated, newFileName, newFileLink,
                   addingSubgroupTo, newSubgroupName, remoteUp>>
    /\ UNCHANGED quota

\* --------------------------------------------- handleCreateSubgroup (201-246)

handleCreateSubgroup(groupId) ==
    /\ Rendered
    /\ IF Trim(newSubgroupName) = Empty \/ userId = Null \/ ~isConnected
       THEN UNCHANGED vars
       ELSE /\ CanDispatch
            /\ calls' = Append(calls, Call("createSubgroup", "request", groups,
                                groupId, newSubgroupName, Empty, NullId))
            /\ quota' = quota - 1
            /\ UNCHANGED <<view, form, remote>>

CreateSubgroupReply(i) ==
    /\ isAuthenticated
    /\ calls[i].kind = "createSubgroup" /\ calls[i].pc = "request"
    /\ IF InsertAccepted(db, calls[i])
       THEN LET data == SubgroupRow(nextId, calls[i].name, calls[i].id, userId)
            IN  /\ db' = [db EXCEPT !.subgroups = Append(@, data)]
                /\ nextId' = nextId + 1
                /\ groups' = WithNewSubgroup(calls[i].groups, calls[i].id, data)
                /\ newSubgroupName' = Empty
                /\ addingSubgroupTo' = NullId
                /\ error' = Null
                /\ calls' = RemoveAt(calls, i)
       ELSE /\ Caught(i, "Erro ao criar subgrupo")
            /\ UNCHANGED <<groups, newSubgroupName, addingSubgroupTo, db, nextId>>
    /\ UNCHANGED <<selectedGroup, selectedSubgroup, isLoading, userId,
                   isConnected, isAuthenticated, newFileName, newFileLink,
                   newGroupName, remoteUp>>
    /\ UNCHANGED quota

\* ---------------------------------------------------- handleAddFile (248-297)

handleAddFile ==
    /\ Rendered
    /\ IF \/ selectedSubgroup = NullId \/ newFileName = Empty
          \/ newFileLink = Empty \/ userId = Null \/ ~isConnected
       THEN UNCHANGED vars
       ELSE /\ CanDispatch
            /\ calls' = Append(calls, Call("addFile", "request", groups,
                                selectedSubgroup, newFileName, newFileLink,
                                NullId))
            /\ quota' = quota - 1
            /\ UNCHANGED <<view, form, remote>>

AddFileReply(i) ==
    /\ isAuthenticated
    /\ calls[i].kind = "addFile" /\ calls[i].pc = "request"
    /\ IF InsertAccepted(db, calls[i])
       THEN LET data == FileRow(nextId, calls[i].name, calls[i].link,
                                calls[i].id, userId)
            IN  /\ db' = [db EXCEPT !.files = Append(@, data)]
                /\ nextId' = nextId + 1
                /\ groups' = WithNewFile(calls[i].groups, calls[i].id, data)
                /\ newFileName' = Empty
                /\ newFileLink' = Empty
                /\ error' = Null
                /\ calls' = RemoveAt(calls, i)
       ELSE /\ Caught(i, "Erro ao adicionar arquivo")
            /\ UNCHANGED <<groups, newFileName, newFileLink, db, nextId>>
    /\ UNCHANGED <<selectedGroup, selectedSubgroup, isLoading, userId,
                   isConnected, isAuthenticated, newGroupName,
                   addingSubgroupTo, newSubgroupName, remoteUp>>
    /\ UNCHANGED quota

\* ------------------------------------------------ handleDeleteGroup (299-333)

\* A delete button that does not look at isConnected.
handleDeleteGroupOffline(groupId) ==
    /\ Rendered
    /\ CanDispatch
    /\ calls' = Append(calls, Call("deleteGroup", "request", groups,
                        groupId, Empty, Empty, selectedGroup))
    /\ quota' = quota - 1
    /\ UNCHANGED <<view, form, remote>>

handleDeleteGroup(groupId) ==
    /\ Rendered
    /\ IF ~isConnected
       THEN UNCHANGED vars
       ELSE /\ CanDispatch
            /\ calls' = Append(calls, Call("deleteGroup", "request", groups,
                                groupId, Empty, Empty, selectedGroup))
            /\ quota' = quota - 1
            /\ UNCHANGED <<view, form, remote>>

\* Lines 313-316, on the selectedGroup the closure holds: the selection after.
SelectionAfterDeleteGroup(c) ==
    IF c.sel = c.id
    THEN <<NullId, NullId>>
    ELSE <<selectedGroup, selectedSubgroup>>

DeleteGroupReply(i) ==
    /\ isAuthenticated
    /\ calls[i].kind = "deleteGroup" /\ calls[i].pc = "request"
    /\ IF remoteUp
       THEN /\ db' = DbDeleteGroup(db, calls[i].id)
            /\ groups' = WithoutGroup(calls[i].groups, calls[i].id)
            /\ selectedGroup' = SelectionAfterDeleteGroup(calls[i])[1]
            /\ selectedSubgroup' = SelectionAfterDeleteGroup(calls[i])[2]
            /\ error' = Null
            /\ calls' = RemoveAt(calls, i)
       ELSE /\ Caught(i, "Erro ao deletar grupo")
            /\ UNCHANGED <<groups, selectedGroup, selectedSubgroup, db>>
    /\ UNCHANGED <<isLoading, userId, isConnected, isAuthenticated, form,
                   nextId, remoteUp>>
    /\ UNCHANGED quota

\* --------------------------------------------- handleDeleteSubgroup (335-375)

\* A delete button that takes the subgroup off the tree as it is clicked.
handleDeleteSubgroupOptimistic(subgroupId) ==
    /\ Rendered
    /\ IF ~isConnected
       THEN UNCHANGED vars
       ELSE /\ CanDispatch
            /\ calls' = Append(calls, Call("deleteSubgroup", "request", groups,
                                subgroupId, Empty, Empty, selectedSubgroup))
            /\ quota' = quota - 1
            /\ groups' = WithoutSubgroup(groups, subgroupId)
            /\ UNCHANGED <<selectedGroup, selectedSubgroup, isLoading, error,
                           userId, isConnected, isAuthenticated, form, remote>>

handleDeleteSubgroup(subgroupId) ==
    /\ Rendered
    /\ IF ~isConnected
       THEN UNCHANGED vars
       ELSE /\ CanDispatch
            /\ calls' = Append(calls, Call("deleteSubgroup", "request", groups,
                                subgroupId, Empty, Empty, selectedSubgroup))
            /\ quota' = quota - 1
            /\ UNCHANGED <<view, form, remote>>

\* Lines 356-358, on the selectedSubgroup the closure holds.
SelectionAfterDeleteSubgroup(c) ==
    IF c.sel = c.id THEN NullId ELSE selectedSubgroup

DeleteSubgroupReply(i) ==
    /\ isAuthenticated
    /\ calls[i].kind = "deleteSubgroup" /\ calls[i].pc = "request"
    /\ IF remoteUp
       THEN /\ db' = DbDeleteSubgroup(db, calls[i].id)
            /\ groups' = WithoutSubgroup(calls[i].groups, calls[i].id)
            /\ selectedSubgroup' = SelectionAfterDeleteSubgroup(calls[i])
            /\ error' = Null
            /\ calls' = RemoveAt(calls, i)
       ELSE /\ Caught(i, "Erro ao deletar subgrupo")
            /\ UNCHANGED <<groups, selectedSubgroup, db>>
    /\ UNCHANGED <<selectedGroup, isLoading, userId, isConnected,
                   isAuthenticated, form, nextId, remoteUp>>
    /\ UNCHANGED quota

\* ------------------------------------------------- handleDeleteFile (377-417)

\* A delete button that takes the file off the tree before the remote answers.
handleDeleteFileOptimistic(fileId) ==
    /\ Rendered
    /\ IF ~isConnected
       THEN UNCHANGED vars
       ELSE /\ CanDispatch
            /\ calls' = Append(calls, Call("deleteFile", "request", groups,
                                fileId, Empty, Empty, NullId))
            /\ quota' = quota - 1
            /\ groups' = WithoutFile(groups, fileId)
            /\ UNCHANGED <<selectedGroup, selectedSubgroup, isLoading, error,
                           userId, isConnected, isAuthenticated, form, remote>>

handleDeleteFile(fileId) ==
    /\ Rendered
    /\ IF ~isConnected
       THEN UNCHANGED vars
       ELSE /\ CanDispatch
            /\ calls' = Append(calls, Call("deleteFile", "request", groups,
                                fileId, Empty, Empty, NullId))
            /\ quota' = quota - 1
            /\ UNCHANGED <<view, form, remote>>

DeleteFileReply(i) ==
    /\ isAuthenticated
    /\ calls[i].kind = "deleteFile" /\ calls[i].pc = "request"
    /\ IF remoteUp
       THEN /\ db' = DbDeleteFile(db, calls[i].id)
            /\ groups' = WithoutFile(calls[i].groups, calls[i].id)
            /\ error' = Null
            /\ calls' = RemoveAt(calls, i)
       ELSE /\ Caught(i, "Erro ao deletar arquivo")
            /\ UNCHANGED <<groups, db>>
    /\ UNCHANGED <<selectedGroup, selectedSubgroup, isLoading, userId,
                   isConnected, isAuthenticated, form, nextId, remoteUp>>
    /\ UNCHANGED quota

\* ------------------------------------------------------- the view's events

toggleGroup(groupId) ==
    /\ Rendered
    /\ UNCHANGED <<selectedGroup, selectedSubgroup, isLoading, error, userId,
                   isConnected, isAuthenticated, form, remote, calls, quota>>
    /\ groups' = GroupToggled(groups, groupId)

toggleSubgroup(groupId, subgroupId) ==
    /\ Rendered
    /\ UNCHANGED <<selectedGroup, selectedSubgroup, isLoading, error, userId,
                   isConnected, isAuthenticated, form, remote, calls, quota>>
    /\ groups' = SubgroupToggled(groups, groupId, subgroupId)

GroupIds(gs) == {gs[i].id : i \in 1..Len(gs)}

SubgroupIds(gs) ==
    UNION {GroupIds(gs[i].subgroups) : i \in 1..Len(gs)}

FileIds(gs) ==
    UNION {UNION {GroupIds(gs[i].subgroups[j].files) :
                    j \in 1..Len(gs[i].subgroups)} : i \in 1..Len(gs)}

\* renderGroup, line 550: onClick={() => setSelectedGroup(group.id)}
SelectGroup(groupId) ==
    /\ Rendered
    /\ groupId \in GroupIds(groups)
    /\ selectedGroup' = groupId
    /\ UNCHANGED <<groups, selectedSubgroup, isLoading, error, userId,
                   isConnected, isAuthenticated, form, remote, calls>>
    /\ UNCHANGED quota

\* A subgroup row whose click also drops the selected group.
SelectSubgroupOnly(subgroupId) ==
    /\ Rendered
    /\ \E i \in 1..Len(groups) :
          groups[i].isExpanded /\ subgroupId \in GroupIds(groups[i].subgroups)
    /\ selectedSubgroup' = subgroupId
    /\ selectedGroup' = NullId
    /\ UNCHANGED <<groups, isLoading, error, userId,
                   isConnected, isAuthenticated, form, remote, calls>>
    /\ UNCHANGED quota

\* renderSubgroup, line 462: onClick={() => setSelectedSubgroup(subgroup.id)}
SelectSubgroup(subgroupId) ==
    /\ Rendered
    /\ \E i \in 1..Len(groups) :
          groups[i].isExpanded /\ subgroupId \in GroupIds(groups[i].subgroups)
    /\ selectedSubgroup' = subgroupId
    /\ UNCHANGED <<groups, selectedGroup, isLoading, error, userId,
                   isConnected, isAuthenticated, form, remote, calls>>
    /\ UNCHANGED quota

\* renderGroup, lines 574-584: the "+" of a group.
StartAddingSubgroup(groupId) ==
    /\ Rendered /\ isConnected
    /\ groupId \in GroupIds(groups)
    /\ selectedGroup' = groupId
    /\ addingSubgroupTo' = groupId
    /\ UNCHANGED <<groups, selectedSubgroup, isLoading, error, userId,
                   isConnected, isAuthenticated, newGroupName, newFileName,
                   newFileLink, newSubgroupName, remote, calls>>
    /\ UNCHANGED quota

\* The four inputs' onChange (lines 605, 674, 706, 714).
setNewGroupName(v) ==
    /\ Rendered /\ isConnected
    /\ newGroupName' = v
    /\ UNCHANGED <<view, newFileName, newFileLink, addingSubgroupTo,
                   newSubgroupName, remote, calls>>
    /\ UNCHANGED quota

setNewSubgroupName(v) ==
    /\ Rendered /\ isConnected
    /\ \E i \in 1..Len(groups) :
          groups[i].isExpanded /\ addingSubgroupTo = groups[i].id
    /\ newSubgroupName' = v
    /\ UNCHANGED <<view, newGroupName, newFileName, newFileLink,
                   addingSubgroupTo, remote, calls>>
    /\ UNCHANGED quota

setNewFileName(v) ==
    /\ Rendered /\ isConnected /\ selectedSubgroup # NullId
    /\ newFileName' = v
    /\ UNCHANGED <<view, newGroupName, newFileLink, addingSubgroupTo,
                   newSubgroupName, remote, calls>>
    /\ UNCHANGED quota

setNewFileLink(v) ==
    /\ Rendered /\ isConnected /\ selectedSubgroup # NullId
    /\ newFileLink' = v
    /\ UNCHANGED <<view, newGroupName, newFileName, addingSubgroupTo,
                   newSubgroupName, remote, calls>>
    /\ UNCHANGED quota

\* ------------------------------------------------------------ the network

RemoteFails ==
    /\ remoteUp /\ remoteUp' = FALSE
    /\ UNCHANGED <<view, form, db, nextId, calls>>
    /\ UNCHANGED quota

RemoteRecovers ==
    /\ ~remoteUp /\ remoteUp' = TRUE
    /\ UNCHANGED <<view, form, db, nextId, calls>>
    /\ UNCHANGED quota

\* ------------------------------------ session and visibility effect (37-65)

\* supabase.auth.signOut() in flight, and then the session-change
\* notification it makes the client deliver to its subscribers.
SignOutCall == Call("signOut", "request", << >>, NullId, Empty, Empty, NullId)

NoSessionCall == Call("signOut", "notify", << >>, NullId, Empty, Empty, NullId)

SigningOut == \E i \in 1..Len(calls) : calls[i].kind = "signOut"

\* handleBeforeUnload, lines 38-40, while the Dashboard is mounted.
handleBeforeUnload ==
    /\ isAuthenticated /\ ~SigningOut
    /\ calls' = Append(calls, SignOutCall)
    /\ UNCHANGED <<view, form, remote>>
    /\ UNCHANGED quota

\* handleVisibilityChange, lines 42-46.
handleVisibilityChange(visibilityState) ==
    /\ isAuthenticated /\ ~SigningOut
    /\ calls' = IF visibilityState = "hidden"
                THEN Append(calls, SignOutCall)
                ELSE calls
    /\ UNCHANGED <<view, form, remote>>
    /\ UNCHANGED quota

\* signOut() answers: the session is ended and a notification without a
\* session is due, unless the remote could not be reached.
SignOutReply(i) ==
    /\ calls[i].kind = "signOut" /\ calls[i].pc = "request"
    /\ calls' = IF remoteUp
                THEN [calls EXCEPT ![i].pc = "notify"]
                ELSE RemoveAt(calls, i)
    /\ UNCHANGED <<view, form, remote>>
    /\ UNCHANGED quota

\* A subscriber that does nothing with the notification.
NoSessionIgnored(i) ==
    /\ calls[i].kind = "signOut" /\ calls[i].pc = "notify"
    /\ calls' = RemoveAt(calls, i)
    /\ UNCHANGED <<view, form, remote>>
    /\ UNCHANGED quota

\* A notification without a session reaches the subscribers: App's
\* (App.tsx 14-17, setIsAuthenticated(!!session)) and the Dashboard's
\* handleAuthStateChange (48-52), which calls onLogout.
handleAuthStateChange(i) ==
    /\ calls[i].kind = "signOut" /\ calls[i].pc = "notify"
    /\ onLogout
    /\ calls' = RemoveAt(calls, i)
    /\ UNCHANGED <<groups, selectedGroup, selectedSubgroup, isLoading, error,
                   userId, isConnected, form, remote>>
    /\ UNCHANGED quota

\* The session ends without this page signing out: it expired, or another
\* page of the user signed out.
SessionLost ==
    /\ isAuthenticated /\ ~SigningOut
    /\ calls' = Append(calls, NoSessionCall)
    /\ UNCHANGED <<view, form, remote>>
    /\ UNCHANGED quota

\* The user's other sessions insert rows of their own: a group, a subgroup
\* under a group the remote holds, a file under a subgroup it holds.
RowCount(d) == Len(d.groups) + Len(d.subgroups) + Len(d.files)

OtherSessionInserts(row, table) ==
    /\ remoteUp /\ RowCount(db) < MaxRows
    /\ db' = [db EXCEPT ![table] = Append(@, row)]
    /\ nextId' = nextId + 1
    /\ UNCHANGED <<view, form, remoteUp, calls>>
    /\ UNCHANGED quota

OtherSessionCreatesGroup ==
    OtherSessionInserts(GroupRow(nextId, GroupName, User), "groups")

OtherSessionCreatesSubgroup(groupId) ==
    OtherSessionInserts(SubgroupRow(nextId, SubgroupName, groupId, User),
                        "subgroups")

OtherSessionAddsFile(subgroupId) ==
    OtherSessionInserts(FileRow(nextId, FileName, FileLink, subgroupId, User),
                        "files")

\* ------------------------------------------------------------------- Next

Subgroups(gs) == UNION {Range(gs[i].subgroups) : i \in 1..Len(gs)}

Files(gs) == UNION {Range(sg.files) : sg \in Subgroups(gs)}

\* renderGroup shows a group's subgroups, and its form, while it is expanded.
Shown(gs) ==
    UNION {IF gs[i].isExpanded THEN Range(gs[i].subgroups) ELSE {} :
             i \in 1..Len(gs)}

\* The handlers' continuations: the remote answers a call in flight.
Calls == 1..Len(calls)

Loads ==
    \/ \E i \in Calls, outcome \in AuthOutcomes : InitGetSession(i, outcome)
    \/ \E i \in Calls : InitCheckConnection(i)
    \/ \E i \in Calls, outcome \in AuthOutcomes : InitGetUser(i, outcome)
    \/ \E i \in Calls : FetchSelectGroups(i)
    \/ \E i \in Calls : FetchSelectSubgroups(i)
    \/ \E i \in Calls : FetchSelectFiles(i)

CreateReplies ==
    \/ \E i \in Calls : CreateGroupReply(i)
    \/ \E i \in Calls : CreateSubgroupReply(i)
    \/ \E i \in Calls : AddFileReply(i)

DeleteReplies ==
    \/ \E i \in Calls : DeleteGroupReply(i)
    \/ \E i \in Calls : DeleteSubgroupReply(i)
    \/ \E i \in Calls : DeleteFileReply(i)

Probes == \E i \in Calls : ProbeReply(i)

Replies == Loads \/ CreateReplies \/ DeleteReplies \/ Probes

\* The buttons the view renders, each with the handler it calls.
Creates ==
    \/ handleCreateGroup
    \/ \E g \in Range(groups) :
          g.isExpanded /\ addingSubgroupTo = g.id /\ handleCreateSubgroup(g.id)
    \/ selectedSubgroup # NullId /\ handleAddFile

Deletes ==
    \/ \E g \in Range(groups) : handleDeleteGroup(g.id)
    \/ \E sg \in Shown(groups) : handleDeleteSubgroup(sg.id)
    \/ \E f \in Files(groups) : handleDeleteFile(f.id)

\* Filling in the forms, and choosing where a subgroup or a file goes.
Typing ==
    \/ setNewGroupName(GroupName)
    \/ setNewSubgroupName(SubgroupName)
    \/ setNewFileName(FileName)
    \/ setNewFileLink(FileLink)
    \/ \E id \in SubgroupIds(groups) : SelectSubgroup(id)
    \/ \E id \in GroupIds(groups) : StartAddingSubgroup(id)

TypingSpaces ==
    \/ setNewGroupName(Spaces)
    \/ setNewSubgroupName(Spaces)
    \/ setNewFileName(Spaces)
    \/ setNewFileLink(Spaces)

\* The identifiers toggleGroup and toggleSubgroup are tried with: those of
\* the tree, and one that is in no tree (the remote has yet to assign it).
GroupTargets == GroupIds(groups) \cup {nextId}
SubgroupTargets == SubgroupIds(groups) \cup {nextId}

Toggles ==
    \/ \E id \in GroupTargets : toggleGroup(id)
    \/ \E gid \in GroupTargets, sid \in SubgroupTargets :
          toggleSubgroup(gid, sid)
    \/ \E id \in GroupIds(groups) : SelectGroup(id)

Network == RemoteFails \/ RemoteRecovers

OtherSessions ==
    \/ OtherSessionCreatesGroup
    \/ \E g \in Range(db.groups) : OtherSessionCreatesSubgroup(g.id)
    \/ \E sg \in Range(db.subgroups) : OtherSessionAddsFile(sg.id)

Dashboard == Replies \/ Creates \/ Deletes \/ Typing

\* The Dashboard over a network that fails and recovers.
Next == Dashboard \/ Network

Spec == Init /\ [][Next]_vars

\* The Dashboard with its tree collapsed, expanded and selected at will.
NextView == Dashboard \/ Toggles

SpecView == Init /\ [][NextView]_vars

\* The Dashboard with forms that may hold only white space.
NextForm == Dashboard \/ TypingSpaces

SpecForm == Init /\ [][NextForm]_vars

\* A user who creates once, and collapses and expands the tree.
InitToggle == Mounted(MaxEdits)

NextToggle == Loads \/ CreateReplies \/ Creates \/ Typing \/ Toggles

SpecToggle == InitToggle /\ [][NextToggle]_vars

\* A user who deletes and collapses, over a network that fails and recovers.
NextLoad == Loads \/ Probes \/ DeleteReplies \/ Deletes \/ Toggles \/ Network

SpecLoad == Init /\ [][NextLoad]_vars

\* A user who deletes groups, over a network that fails and recovers and a
\* remote that held rows at the start and that other sessions write to.
InitShared == Init /\ db # EmptyDb

NextShared ==
    \/ Loads
    \/ Probes
    \/ \E i \in Calls : DeleteGroupReply(i)
    \/ \E g \in Range(groups) : handleDeleteGroup(g.id)
    \/ Network
    \/ OtherSessions

SpecShared == InitShared /\ [][NextShared]_vars

\* A user who creates once, on a page that is hidden, unloaded or loses its
\* session; sign-outs are answered and notifications delivered.
AuthEvents ==
    \/ handleBeforeUnload
    \/ \E visibilityState \in {"hidden", "visible"} :
          handleVisibilityChange(visibilityState)
    \/ SessionLost

SignOutReplies == \E i \in Calls : SignOutReply(i)

Notifications == \E i \in Calls : handleAuthStateChange(i)

NextAuth ==
    Loads \/ CreateReplies \/ Creates \/ Typing
          \/ AuthEvents \/ SignOutReplies \/ Notifications

SpecAuth ==
    /\ InitToggle /\ [][NextAuth]_vars
    /\ WF_vars(SignOutReplies) /\ WF_vars(Notifications)

\* A user who only creates, and creates more.
NextCreate == Loads \/ CreateReplies \/ Creates \/ Typing

SpecCreate == InitCreate /\ [][NextCreate]_vars

\* The Dashboard whose awaited calls all settle: every await of initializeApp,
\* of fetchGroups and of a catch block resumes.
SpecSettling == Init /\ [][Next]_vars /\ WF_vars(Loads) /\ WF_vars(Probes)

\* ------------------------------------------------------------------ steps

\* Call i ends in this step with the remote's success: it leaves calls
\* straight from its request, not through the catch block's probe.
Succeeds(i, kind) ==
    /\ i \in Calls
    /\ calls[i].kind = kind /\ calls[i].pc = "request"
    /\ calls' = RemoveAt(calls, i)

\* The subgroups and files a tree holds under group id.
SubgroupsUnder(gs, id) ==
    UNION {IF gs[i].id = id THEN Range(gs[i].subgroups) ELSE {} :
             i \in 1..Len(gs)}

FilesUnder(gs, id) == UNION {Range(sg.files) : sg \in SubgroupsUnder(gs, id)}

IdsOf(rows) == {r.id : r \in rows}

\* ------------------------------------------------------------------- C1

\* C1: in every reachable state every subgroup of the tree sits under the
\* group whose id is its group_id, and every file under the subgroup whose id
\* is its subgroup_id.
NestingMatchesParents ==
    \A i \in 1..Len(groups) :
        \A j \in 1..Len(groups[i].subgroups) :
            /\ groups[i].subgroups[j].group_id = groups[i].id
            /\ \A k \in 1..Len(groups[i].subgroups[j].files) :
                   groups[i].subgroups[j].files[k].subgroup_id =
                       groups[i].subgroups[j].id

\* A subgroup and a file created in this run are in the tree, beside the
\* group the remote already held.
NestedCreatedWitness ==
    /\ Len(groups) >= 1
    /\ \E sg \in Subgroups(groups) : sg.id > 3
    /\ \E f \in Files(groups) : f.id > 3

\* ------------------------------------------------------------------- C2

\* C2: after a successful deleteGroup(id) the tree holds neither the group
\* nor what was nested under it, and neither selectedGroup nor
\* selectedSubgroup is one of the removed ids.
DeleteGroupClearsStep(i) ==
    Succeeds(i, "deleteGroup") =>
        LET id == calls[i].id
            removed == {id} \cup IdsOf(SubgroupsUnder(groups, id))
                            \cup IdsOf(FilesUnder(groups, id))
        IN  /\ GroupIds(groups') \cap removed = {}
            /\ SubgroupIds(groups') \cap removed = {}
            /\ FileIds(groups') \cap removed = {}
            /\ selectedGroup' \notin removed
            /\ selectedSubgroup' \notin removed

DeleteGroupClearsSelection ==
    [][\A i \in Calls : DeleteGroupClearsStep(i)]_vars

\* ------------------------------------------------------------------- C3

\* C3: createFile with a name or a link that is empty or only white space
\* sends no insert and changes nothing.
BlankFileRejected ==
    [][(handleAddFile /\ (Trim(newFileName) = Empty \/ Trim(newFileLink) = Empty))
          => UNCHANGED vars]_vars

\* ------------------------------------------------------------------- C4

\* The tree without its expanded flags: its nodes, their order and nesting.
Unflagged(gs) ==
    [i \in 1..Len(gs) |->
        [id |-> gs[i].id, name |-> gs[i].name,
         subgroups |->
            [j \in 1..Len(gs[i].subgroups) |->
                [id |-> gs[i].subgroups[j].id,
                 name |-> gs[i].subgroups[j].name,
                 group_id |-> gs[i].subgroups[j].group_id,
                 files |-> gs[i].subgroups[j].files]]]]

\* Group i, and subgroup j of group i, have in gs2 the flag they have in gs1,
\* flipped for the group flipG(i) and the subgroup flipS(i, j) pick out.
FlagsFlipped(gs1, gs2, flipG(_), flipS(_, _)) ==
    \A i \in 1..Len(gs1) :
        /\ gs2[i].isExpanded = (gs1[i].isExpanded # flipG(i))
        /\ \A j \in 1..Len(gs1[i].subgroups) :
               gs2[i].subgroups[j].isExpanded =
                   (gs1[i].subgroups[j].isExpanded # flipS(i, j))

ToggleFrame ==
    /\ calls' = calls /\ db' = db
    /\ selectedGroup' = selectedGroup /\ selectedSubgroup' = selectedSubgroup
    /\ isConnected' = isConnected /\ error' = error
    /\ Unflagged(groups') = Unflagged(groups)

\* C4: toggleGroup and toggleSubgroup send no request and leave the
\* selection, the connectivity flag, the error and the nodes, order and
\* nesting of the tree alone; only the expanded flag of the node addressed
\* flips, and nothing changes when that node is not in the tree.
ToggleFlipsOnlyItsNode ==
    [][/\ \A id \in GroupTargets :
            toggleGroup(id) =>
                /\ ToggleFrame
                /\ FlagsFlipped(groups, groups',
                                LAMBDA i : groups[i].id = id,
                                LAMBDA i, j : FALSE)
                /\ id \notin GroupIds(groups) => groups' = groups
       /\ \A gid \in GroupTargets, sid \in SubgroupTargets :
            toggleSubgroup(gid, sid) =>
                /\ ToggleFrame
                /\ FlagsFlipped(groups, groups',
                                LAMBDA i : FALSE,
                                LAMBDA i, j : /\ groups[i].id = gid
                                              /\ groups[i].subgroups[j].id = sid)
                /\ sid \notin IdsOf(SubgroupsUnder(groups, gid))
                      => groups' = groups]_vars

\* A group and a subgroup are collapsed while a subgroup is selected, beside
\* a second group that is still expanded.
ToggledWitness ==
    /\ selectedSubgroup # NullId
    /\ \E g \in Range(groups) : ~g.isExpanded
    /\ \E g \in Range(groups) : g.isExpanded
    /\ \E sg \in Subgroups(groups) : ~sg.isExpanded

\* ------------------------------------------------------------------- C5

\* Call i, a fetchGroups whose files select is awaited, ends in this step
\* with the remote's answer.
FetchSucceeds(i) ==
    /\ i \in Calls
    /\ calls[i].kind = "fetchGroups" /\ calls[i].pc = "files"
    /\ calls' = RemoveAt(calls, i)

\* The rows of dataset d, nested.
LoadedTree(d) == AssembleTree(d.groups, d.subgroups, d.files)

AllExpanded(gs) ==
    /\ \A g \in Range(gs) : g.isExpanded
    /\ \A sg \in Subgroups(gs) : sg.isExpanded

\* C5: the tree a successful load leaves, when its three selects saw the same
\* dataset, is a function of that dataset alone, whatever tree and flags were
\* there before: two loads of an unchanged dataset leave the same tree, with
\* every node expanded.
LoadDependsOnDatasetOnly ==
    [][\A i \in Calls :
          (/\ FetchSucceeds(i)
           /\ calls[i].rows.groups = db.groups
           /\ calls[i].rows.subgroups = db.subgroups)
          => /\ groups' = LoadedTree(db)
             /\ AllExpanded(groups')]_vars

\* Both requests of the run failed, leaving the remote as it was at the start
\* and an error, and a load that followed them has cleared the error: it is
\* the second load of that dataset.
SecondLoadWitness ==
    /\ quota = 0 /\ calls = << >>
    /\ db \in InitialDatasets /\ groups # << >>
    /\ error = Null /\ isConnected
    /\ groups = LoadedTree(db)

\* ------------------------------------------------------------------- C6

\* C6: a successful load leaves exactly the fetched groups in fetch order,
\* under each the fetched subgroups of that group in fetch order, under each
\* of those the fetched files of that subgroup in fetch order, every node
\* expanded; fetched subgroups and files whose parent is not in the tree are
\* not in it, and neither is anything the tree held before.
LoadInstallsStep(i) ==
    FetchSucceeds(i) =>
        LET fg == calls[i].rows.groups
            fs == calls[i].rows.subgroups
            ff == db.files
        IN  /\ Len(groups') = Len(fg)
            /\ \A g \in 1..Len(fg) :
                  LET node == groups'[g]
                      under == SelectSeq(fs, LAMBDA s : s.group_id = fg[g].id)
                  IN  /\ node.id = fg[g].id /\ node.name = fg[g].name
                      /\ node.isExpanded
                      /\ Len(node.subgroups) = Len(under)
                      /\ \A s \in 1..Len(under) :
                            LET sub == node.subgroups[s]
                            IN  /\ sub.id = under[s].id
                                /\ sub.name = under[s].name
                                /\ sub.group_id = under[s].group_id
                                /\ sub.isExpanded
                                /\ sub.files =
                                      SelectSeq(ff, LAMBDA f :
                                                  f.subgroup_id = under[s].id)
            /\ SubgroupIds(groups') =
                  {s.id : s \in {r \in Range(fs) :
                                   r.group_id \in IdsOf(Range(fg))}}
            /\ FileIds(groups') =
                  {f.id : f \in {r \in Range(ff) :
                                   r.subgroup_id \in SubgroupIds(groups')}}

LoadInstallsFetchedRows == [][\A i \in Calls : LoadInstallsStep(i)]_vars

\* No request was sent, so the tree is as a load left it; it holds a file
\* newer than a file of the remote that it lacks: the files select returned
\* both, and the older one, whose subgroup another session inserted after the
\* subgroups select, was dropped.
OrphanDroppedWitness ==
    /\ quota = MaxRequests /\ calls = << >> /\ ~isLoading /\ error = Null
    /\ \E q \in Range(db.files), r \in Files(groups) :
          q.id \notin FileIds(groups) /\ r.id > q.id

\* ------------------------------------------------------------------- C7

\* The remote held nothing when the Dashboard mounted, and the three requests
\* of the run have been answered with one group, one subgroup and one file
\* inserted: a createGroup, a createSubgroup under the group it returned and
\* an addFile under the subgroup that returned, each sent from the tree the
\* one before it left.
ChainCreated ==
    /\ quota = 0 /\ calls = << >> /\ nextId = 4
    /\ Len(db.groups) = 1 /\ Len(db.subgroups) = 1 /\ Len(db.files) = 1

\* C7: from an empty tree, createGroup, then createSubgroup under the group
\* returned, then createFile under the subgroup returned, leave a tree of
\* exactly one group holding exactly one subgroup holding exactly one file,
\* with the names and the link that were typed.
ChainBuildsOneOfEach ==
    ChainCreated =>
        /\ Len(groups) = 1
        /\ groups[1].name = GroupName
        /\ Len(groups[1].subgroups) = 1
        /\ groups[1].subgroups[1].name = SubgroupName
        /\ groups[1].subgroups[1].group_id = groups[1].id
        /\ Len(groups[1].subgroups[1].files) = 1
        /\ groups[1].subgroups[1].files[1].name = FileName
        /\ groups[1].subgroups[1].files[1].link = FileLink
        /\ groups[1].subgroups[1].files[1].subgroup_id =
               groups[1].subgroups[1].id

ChainCreatedWitness == ChainCreated /\ Files(groups) # {}

\* ------------------------------------------------------------------- C8

\* C8: after a successful deleteSubgroup(id) with no other request in flight
\* the tree lacks that subgroup and its files, every other node, flag and
\* order is as before, selectedSubgroup is cleared if it was id, and
\* selectedGroup is unchanged.
DeleteSubgroupStep(i) ==
    (Succeeds(i, "deleteSubgroup") /\ Len(calls) = 1) =>
        LET id == calls[i].id
        IN  /\ \A g \in 1..Len(groups) :
                   /\ Len(groups') = Len(groups)
                   /\ groups'[g] =
                        [groups[g] EXCEPT !.subgroups =
                            SelectSeq(groups[g].subgroups,
                                      LAMBDA sg : sg.id # id)]
            /\ selectedSubgroup' =
                   IF selectedSubgroup = id THEN NullId ELSE selectedSubgroup
            /\ selectedGroup' = selectedGroup

DeleteSubgroupOnlyRemovesIt == [][\A i \in Calls : DeleteSubgroupStep(i)]_vars

\* ------------------------------------------------------------------- C9

Requests ==
    {"createGroup", "createSubgroup", "addFile",
     "deleteGroup", "deleteSubgroup", "deleteFile"}

\* The remote's answer to call i is an error, caught in this step: the call
\* goes on to await the probe.
Fails(i) ==
    /\ i \in Calls
    /\ calls[i].pc # "probe"
    /\ calls' = [calls EXCEPT ![i].pc = "probe"]

\* The probe call i awaits answers in this step, and the call ends; the
\* effect on isConnected may start a load.
ProbeAnswers(i) ==
    /\ i \in Calls
    /\ calls[i].pc = "probe"
    /\ \/ calls' = RemoveAt(calls, i)
       \/ calls' = Append(RemoveAt(calls, i), FetchCall)

\* C9: when the remote rejects a create or delete request the tree and the
\* selection stay as they were, error becomes non-null and the call awaits a
\* connectivity probe; when the probe answers, its result is isConnected and
\* the tree and the selection stay as they were.
RejectedRequestKeepsTree ==
    [][\A i \in Calls :
          /\ (Fails(i) /\ calls[i].kind \in Requests)
                => /\ groups' = groups
                   /\ selectedGroup' = selectedGroup
                   /\ selectedSubgroup' = selectedSubgroup
                   /\ error' # Null
          /\ (ProbeAnswers(i) /\ calls[i].kind \in Requests)
                => /\ isConnected' = checkConnection
                   /\ groups' = groups
                   /\ selectedGroup' = selectedGroup
                   /\ selectedSubgroup' = selectedSubgroup]_vars

\* A request was rejected and its probe has found the remote down; the tree
\* the load left is on screen with the request's error.
RejectedRequestWitness ==
    /\ calls = << >> /\ ~isConnected /\ groups # << >>
    /\ error \in {"Erro ao criar grupo", "Erro ao criar subgrupo",
                   "Erro ao adicionar arquivo", "Erro ao deletar grupo",
                   "Erro ao deletar subgrupo", "Erro ao deletar arquivo"}

\* ------------------------------------------------------------------ C10

\* C10: when one of the three selects of a load fails, the tree is as it was
\* (no select of a load, failed or not, touches it before the last has
\* succeeded), error is set and the call awaits a connectivity probe; when
\* the probe answers, its result is isConnected and the tree is as it was.
FailedLoadKeepsTree ==
    [][\A i \in Calls :
          calls[i].kind = "fetchGroups" =>
            /\ Fails(i) => /\ groups' = groups
                           /\ error' = "Erro ao carregar os dados"
            /\ (~FetchSucceeds(i) /\ i \in 1..Len(calls')
                   /\ calls'[i].kind = "fetchGroups"
                   /\ calls'[i].pc # calls[i].pc) => groups' = groups
            /\ ProbeAnswers(i) => /\ isConnected' = checkConnection
                                  /\ groups' = groups]_vars

\* A load failed after an earlier one had filled the tree, and its probe has
\* found the remote down: the tree of the earlier load is still there.
FailedLoadWitness ==
    /\ calls = << >> /\ ~isConnected /\ groups # << >>
    /\ error = "Erro ao carregar os dados"

\* ------------------------------------------------------------------ C11

\* One of the six handlers is invoked in this step, on a node of the tree.
HandlerInvoked ==
    \/ handleCreateGroup
    \/ handleAddFile
    \/ \E id \in GroupIds(groups) :
          handleCreateSubgroup(id) \/ handleDeleteGroup(id)
    \/ \E id \in SubgroupIds(groups) : handleDeleteSubgroup(id)
    \/ \E id \in FileIds(groups) : handleDeleteFile(id)

\* fetchGroups starts in this step: a call at its first select joins calls.
FetchStarts ==
    /\ calls' # calls
    /\ \E i \in Calls : calls' = Append(RemoveAt(calls, i), FetchCall)

\* C11: while isConnected is false a handler that is invoked sends nothing
\* and changes nothing, and fetchGroups never starts in a step that leaves
\* isConnected false.
DisconnectedHandlersDoNothing ==
    [][/\ (~isConnected /\ HandlerInvoked) => UNCHANGED vars
       /\ FetchStarts => isConnected']_vars

\* The flag is false over a tree whose buttons are on screen, with room for
\* a request: only the flag keeps a click from sending one.
DisconnectedWitness ==
    /\ Rendered /\ ~isConnected /\ userId # Null
    /\ groups # << >> /\ CanDispatch
    /\ newGroupName = GroupName

\* ------------------------------------------------------------------ C12

\* C12: once a failed operation has left isConnected false and the remote
\* answers again, a create the user retries (a name is typed, a request may
\* be sent) is sent to the remote.
RetryAfterReconnectIsSent ==
    (/\ Rendered /\ userId # Null /\ ~isConnected /\ remoteUp
     /\ Trim(newGroupName) # Empty /\ CanDispatch)
    => ENABLED (handleCreateGroup /\ calls' # calls)

\* ------------------------------------------------------------------ C13

\* C13: when a createGroup request succeeds, the tree after the step is the
\* tree before the step with the returned group appended, expanded and with
\* no subgroups, whatever was done to the tree since the request was sent.
CreateGroupStep(i) ==
    Succeeds(i, "createGroup") =>
        /\ Len(groups') = Len(groups) + 1
        /\ SubSeq(groups', 1, Len(groups)) = groups
        /\ groups'[Len(groups')].name = calls[i].name
        /\ groups'[Len(groups')].subgroups = << >>
        /\ groups'[Len(groups')].isExpanded

CreateGroupAppendsToCurrentTree ==
    [][\A i \in Calls : CreateGroupStep(i)]_vars

\* ------------------------------------------------------------------ C14

SignOutIssued == calls' = Append(calls, SignOutCall)

NoSessionNotified ==
    \E i \in 1..Len(calls) : calls[i].kind = "signOut" /\ calls[i].pc = "notify"

\* C14: the document becoming hidden and the page unloading issue a
\* sign-out; a sign-out the remote can answer, and every notification
\* without a session, lead to the logged-out view, and the step that
\* delivers the notification is the one that leaves isAuthenticated false.
HiddenOrUnloadedLogsOut ==
    /\ [][/\ handleBeforeUnload => SignOutIssued
          /\ handleVisibilityChange("hidden") => SignOutIssued
          /\ \A i \in Calls :
                (calls[i].kind = "signOut" /\ calls[i].pc = "notify"
                   /\ calls' = RemoveAt(calls, i)) => ~isAuthenticated']_vars
    /\ (SigningOut /\ remoteUp) ~> ~isAuthenticated
    /\ NoSessionNotified ~> ~isAuthenticated

\* The user had been loaded and is now logged out: not by initializeApp,
\* which logs out before it stores a user id, but by a notification.
LoggedOutByNotification ==
    ~isAuthenticated /\ userId # Null /\ groups # << >>

\* ------------------------------------------------------------------ C15

\* No load and no create or delete request is in flight.
NoRemoteWork ==
    \A i \in 1..Len(calls) : calls[i].kind \notin Requests \cup {"fetchGroups"}

Awaited(cs) ==
    Cardinality({i \in 1..Len(cs) :
                   cs[i].kind \in Requests /\ cs[i].pc = "request"})

\* C16: a request comes to await the remote only in a step in which the
\* user invokes a handler, one request per invocation: no step of a catch
\* block, of a probe or of a load puts a request back.
FailedRequestIsNotResent ==
    [][Awaited(calls') > Awaited(calls)
          => /\ HandlerInvoked
             /\ Awaited(calls') = Awaited(calls) + 1
             /\ quota' = quota - 1]_vars

\* A request failed, its probe found the remote again, and nothing is in
\* flight: the request was not repeated.
NotResentWitness ==
    /\ calls = << >> /\ isConnected /\ remoteUp /\ quota < MaxRequests
    /\ error \in {"Erro ao criar grupo", "Erro ao deletar grupo",
                   "Erro ao deletar subgrupo", "Erro ao deletar arquivo"}

\* ------------------------------------------------------------------ C17

\* Nothing but the two selection variables changes.
SelectionFrame ==
    /\ groups' = groups /\ calls' = calls /\ db' = db
    /\ form' = form /\ error' = error /\ isConnected' = isConnected

\* C17: a click on a group row changes selectedGroup and nothing else, a
\* click on a subgroup row changes selectedSubgroup and nothing else: no
\* flag, no node, not the other selection, and no request.
SelectingChangesOnlyItsSelection ==
    [][/\ \A id \in GroupIds(groups) :
            SelectGroup(id) => /\ selectedGroup' = id
                               /\ selectedSubgroup' = selectedSubgroup
                               /\ SelectionFrame
       /\ \A id \in SubgroupIds(groups) :
            SelectSubgroup(id) => /\ selectedSubgroup' = id
                                  /\ selectedGroup' = selectedGroup
                                  /\ SelectionFrame]_vars

\* A group is selected by its row, and a subgroup of another group by its
\* own.
SelectedApartWitness ==
    /\ selectedGroup # NullId /\ selectedSubgroup # NullId
    /\ addingSubgroupTo = NullId
    /\ \E g \in Range(groups) :
          /\ g.id = selectedGroup
          /\ selectedSubgroup \notin GroupIds(g.subgroups)

\* ------------------------------------------------------------------ C18

\* Sequence rows is in ascending created_at order.
Ascending(rows) ==
    \A i, j \in 1..Len(rows) :
        i < j => rows[i].created_at < rows[j].created_at

\* The node a create request adds is the last of its siblings.
CreatedLast(i) ==
    /\ Succeeds(i, "createGroup")
          => groups'[Len(groups')].id = nextId
    /\ Succeeds(i, "createSubgroup")
          => \A g \in Range(groups') :
                nextId \in GroupIds(g.subgroups)
                   => g.subgroups[Len(g.subgroups)].id = nextId
    /\ Succeeds(i, "addFile")
          => \A sg \in Subgroups(groups') :
                nextId \in GroupIds(sg.files)
                   => sg.files[Len(sg.files)].id = nextId

\* C18: in every reachable state the groups, the subgroups of each group and
\* the files of each subgroup are in ascending created_at order, and a
\* create puts its node last among its siblings.
SiblingsInCreationOrder ==
    /\ [](/\ Ascending(groups)
          /\ \A g \in Range(groups) : Ascending(g.subgroups)
          /\ \A sg \in Subgroups(groups) : Ascending(sg.files))
    /\ [][\A i \in Calls : CreatedLast(i)]_vars

\* Two groups, one of them collapsed, after both requests of the run.
TwoGroupsWitness ==
    /\ Len(groups) >= 2 /\ quota = 0 /\ calls = << >>
    /\ \E g \in Range(groups) : ~g.isExpanded

\* ------------------------------------------------------------------ C19

\* C19: handleCreateGroup and handleCreateSubgroup, invoked with a name that
\* is empty once trimmed or with no user id, send nothing and change
\* nothing: not the tree, the selection, isConnected or the error.
BlankNameRejected ==
    [][/\ (handleCreateGroup
             /\ (Trim(newGroupName) = Empty \/ userId = Null))
            => UNCHANGED vars
       /\ \A id \in GroupIds(groups) :
            (handleCreateSubgroup(id)
               /\ (Trim(newSubgroupName) = Empty \/ userId = Null))
            => UNCHANGED vars]_vars

\* White space is typed as the group name and as the subgroup name, the
\* remote is connected and a request could be sent.
BlankNamesWitness ==
    /\ Rendered /\ isConnected /\ CanDispatch
    /\ newGroupName = Spaces /\ newSubgroupName = Spaces
    /\ \E g \in Range(groups) : g.isExpanded /\ addingSubgroupTo = g.id

\* ------------------------------------------------------------------ C20

\* The nodes of a tree, by table.
Nodes(gs) == <<GroupIds(gs), SubgroupIds(gs), FileIds(gs)>>

NodeIds(gs) == GroupIds(gs) \cup SubgroupIds(gs) \cup FileIds(gs)

\* The remote answers a request or the last select of a load with success.
SuccessHandled ==
    \E i \in Calls :
        \/ FetchSucceeds(i)
        \/ \E kind \in Requests : Succeeds(i, kind)

DeleteSent ==
    /\ calls' # calls
    /\ \/ \E id \in GroupIds(groups) : handleDeleteGroup(id)
       \/ \E id \in SubgroupIds(groups) : handleDeleteSubgroup(id)
       \/ \E id \in FileIds(groups) : handleDeleteFile(id)

\* The node delete call c is about is in tree gs.
Holds(gs, c) ==
    \/ c.kind = "deleteGroup" /\ c.id \in GroupIds(gs)
    \/ c.kind = "deleteSubgroup" /\ c.id \in SubgroupIds(gs)
    \/ c.kind = "deleteFile" /\ c.id \in FileIds(gs)

DeleteFileStep(i) ==
    (Succeeds(i, "deleteFile") /\ Len(calls) = 1) =>
        /\ calls[i].id \notin FileIds(groups')
        /\ groups' = WithoutFile(groups, calls[i].id)
        /\ selectedGroup' = selectedGroup
        /\ selectedSubgroup' = selectedSubgroup

DeleteFileOnlyRemovesIt == [][\A i \in Calls : DeleteFileStep(i)]_vars

\* ------------------------------------------------------------------ C23

\* The rows the remote stores, by table.
Stored(d) ==
    <<IdsOf(Range(d.groups)), IdsOf(Range(d.subgroups)), IdsOf(Range(d.files))>>

\* C23: in a session on its own, whenever the tree is on screen, nothing is
\* in flight and no request has failed since the load, the tree holds exactly
\* the groups, subgroups and files the remote stores, also after requests
\* that overlapped.
TreeMatchesRemote ==
    (/\ Rendered /\ userId # Null /\ calls = << >>
     /\ isConnected /\ error = Null)
    => Nodes(groups) = Stored(db)

\* ------------------------------------------------------------------ C24

\* getSession has answered with a session; initializeApp awaits the probe.
SessionHeld ==
    \E i \in Calls :
        calls[i].kind = "initializeApp" /\ calls[i].pc = "checkConnection"

\* C24: once the Dashboard is mounted with a session, its loading state
\* ends on every path of the initialization (or the user is logged out),
\* also when the first probe finds the remote unreachable.
LoadingEnds == SessionHeld ~> (~isLoading \/ ~isAuthenticated)

\* ------------------------------------------------------------------ C25

\* C25: after the step that handles a successful deleteSubgroup(id),
\* selectedSubgroup is not id, also when the user selected that subgroup
\* while the delete was awaiting its answer.
DeletedSubgroupNotSelected ==
    [][\A i \in Calls :
          Succeeds(i, "deleteSubgroup") => selectedSubgroup' # calls[i].id]_vars

\* ------------------------------------------------------------------ C26

\* The files the tree gains in this step.
FilesGained == FileIds(groups') \ FileIds(groups)

\* C26: when an addFile request succeeds, the row the remote stored carries
\* the subgroup that was selected when the request was sent; the returned
\* file is in the tree under that subgroup only, whatever is selected by
\* now; and if that subgroup is not in the tree the tree gains no file.
AddFileStep(i) ==
    Succeeds(i, "addFile") =>
        LET subgroupId == calls[i].id
        IN  /\ db'.files[Len(db'.files)].id = nextId
            /\ db'.files[Len(db'.files)].subgroup_id = subgroupId
            /\ \A sg \in Subgroups(groups') :
                   nextId \in IdsOf(Range(sg.files)) => sg.id = subgroupId
            /\ subgroupId \notin SubgroupIds(groups) => FilesGained = {}

FileGoesUnderItsSubgroup == [][\A i \in Calls : AddFileStep(i)]_vars

====
